---- MODULE Spec2Model ----
(***************************************************************************)
(* scripts/constants.py: a straight-line Python script that evaluates a    *)
(* handful of float expressions and prints each with the format spec       *)
(* '0.16f'.  The script is modelled as the sequence of evaluation steps    *)
(* the interpreter performs (operand stack, module namespace, stdout),     *)
(* and the float arithmetic as IEEE-754 binary64 over exact integers.      *)
(***************************************************************************)
EXTENDS Integers, Sequences, FiniteSets, TLC

(***************************************************************************)
(* F(v) with v evaluated once, however often F uses it.                    *)
(***************************************************************************)
With(v, F(_)) == CHOOSE r \in {F(x) : x \in {v}} : TRUE

With2(u, v, F(_, _)) == CHOOSE r \in {F(x, y) : x \in {u}, y \in {v}} : TRUE

(***************************************************************************)
(* Natural numbers of arbitrary size: little-endian sequences of limbs in  *)
(* base 2^15, without high zero limbs (zero is the empty sequence).        *)
(***************************************************************************)
LimbBits == 14 + 1

Base == 2 ^ LimbBits

Max(i, j) == IF i >= j THEN i ELSE j

Limb(x, i) == IF i <= Len(x) THEN x[i] ELSE 0

\* the index of the highest non-zero limb, 0 when there is none
HighIndex(x) ==
    LET nz == {i \in 1..Len(x) : x[i] # 0}
    IN  IF nz = {} THEN 0 ELSE CHOOSE i \in nz : \A j \in nz : j <= i

Trim(x0) == With(x0, LAMBDA x : SubSeq(x, 1, HighIndex(x)))

ShiftLimbs(x0, n) ==
    With(x0, LAMBDA x : IF x = <<>> THEN x ELSE [i \in 1..n |-> 0] \o x)

\* x + y; the carry into limb i is decided by the limbs below it
BigAdd(x0, y0) ==
    With2(x0, y0, LAMBDA x, y :
        LET n == Max(Len(x), Len(y))
            s(i) == Limb(x, i) + Limb(y, i)
            carry(i) == IF \E j \in 1..(i - 1) :
                              /\ s(j) >= Base
                              /\ \A k \in (j + 1)..(i - 1) : s(k) = Base - 1
                        THEN 1 ELSE 0
        IN  Trim([i \in 1..(n + 1) |-> (s(i) + carry(i)) % Base]))

\* x - y for x >= y; the borrow out of limb i is decided by the limbs below it
BigSub(x0, y0) ==
    With2(x0, y0, LAMBDA x, y :
        LET borrow(i) == IF \E j \in 1..(i - 1) :
                               /\ x[j] < Limb(y, j)
                               /\ \A k \in (j + 1)..(i - 1) : x[k] = Limb(y, k)
                         THEN 1 ELSE 0
        IN  Trim([i \in 1..Len(x) |-> (x[i] - Limb(y, i) - borrow(i) + Base) % Base]))

\* -1, 0, 1 as x < y, x = y, x > y
BigCmp(x0, y0) ==
    With2(x0, y0, LAMBDA x, y :
        IF Len(x) < Len(y) THEN -1
        ELSE IF Len(x) > Len(y) THEN 1
        ELSE IF \A i \in 1..Len(x) : x[i] = y[i] THEN 0
        ELSE IF \E i \in 1..Len(x) :
                   /\ x[i] < y[i]
                   /\ \A k \in (i + 1)..Len(x) : x[k] = y[k]
             THEN -1 ELSE 1)

\* x * k for 0 <= k < Base
BigMulSmall(x0, k0) ==
    With2(x0, k0, LAMBDA x, k :
        BigAdd(Trim([i \in 1..Len(x) |-> (x[i] * k) % Base]),
               ShiftLimbs(Trim([i \in 1..Len(x) |-> (x[i] * k) \div Base]), 1)))

RECURSIVE SumTo(_, _)
\* f[1] + ... + f[n]
SumTo(f, n) == IF n = 0 THEN 0 ELSE f[n] + SumTo(f, n - 1)

\* the number whose limb i is v[i], for entries v[i] < Base * Base
Normalize(v0) ==
    With(v0, LAMBDA v :
        BigAdd(Trim([i \in 1..Len(v) |-> v[i] % Base]),
               ShiftLimbs(Trim([i \in 1..Len(v) |-> v[i] \div Base]), 1)))

\* x * y, by columns: the low and the high halves of the limb products that
\* fall in column k are summed apart, so that no sum exceeds the integers
BigMul(x0, y0) ==
    With2(x0, y0, LAMBDA x, y :
        LET n == Len(x) + Len(y)
            prod(i, k) == IF k + 1 - i >= 1 /\ k + 1 - i <= Len(y)
                          THEN x[i] * y[k + 1 - i] ELSE 0
            lo(k) == SumTo([i \in 1..Len(x) |-> prod(i, k) % Base], Len(x))
            hi(k) == SumTo([i \in 1..Len(x) |-> prod(i, k) \div Base], Len(x))
        IN  IF x = <<>> \/ y = <<>> THEN <<>>
            ELSE BigAdd(Normalize(SubSeq([k \in 1..n |-> lo(k)], 1, n)),
                        ShiftLimbs(Normalize(SubSeq([k \in 1..n |-> hi(k)], 1, n)), 1)))

\* x * 2^n
BigShl(x, n) == ShiftLimbs(BigMulSmall(x, 2 ^ (n % LimbBits)), n \div LimbBits)

\* floor(x / 2^n)
BigShr(x0, n0) ==
    With2(x0, n0, LAMBDA x, n :
        LET w == n \div LimbBits
            b == n % LimbBits
            z(i) == Limb(x, w + i)
        IN  IF w >= Len(x) THEN <<>>
            ELSE Trim([i \in 1..(Len(x) - w) |->
                        (z(i) \div 2 ^ b) + (z(i + 1) % 2 ^ b) * 2 ^ (LimbBits - b)]))

BitLenSmall(n) == Cardinality({b \in 0..(LimbBits - 1) : 2 ^ b <= n})

BigBitLen(x0) ==
    With(x0, LAMBDA x :
        IF x = <<>> THEN 0 ELSE LimbBits * (Len(x) - 1) + BitLenSmall(x[Len(x)]))

BigIsOdd(x0) == With(x0, LAMBDA x : x # <<>> /\ x[1] % 2 = 1)

BigOne == <<1>>

RECURSIVE DivSmallFrom(_, _, _, _, _)
\* long division of x by k from limb i down, with q the quotient limbs and r
\* the remainder of the limbs above i
DivSmallFrom(x, k, i, q, r) ==
    IF i = 0 THEN [q |-> Trim(q), r |-> r]
    ELSE With2(<<(r * Base + x[i]) \div k>> \o q, (r * Base + x[i]) % k,
               LAMBDA q1, r1 : DivSmallFrom(x, k, i - 1, q1, r1))

\* quotient and remainder of x by k, for 0 < k < Base
BigDivSmall(x0, k0) ==
    With2(x0, k0, LAMBDA x, k : DivSmallFrom(x, k, Len(x), <<>>, 0))

\* d0 + t * step for the largest t < 32 with y * (d0 + t * step) <= r,
\* given y * d0 <= r
QuotStep(r, y, d0, step) ==
    d0 + step * (Cardinality({t \in 0..31 :
                     BigCmp(BigMulSmall(y, d0 + t * step), r) <= 0}) - 1)

\* the largest d < Base with y * d <= r, five bits at a time
QuotLimb(r, y) ==
    With(QuotStep(r, y, 0, 2 ^ 10), LAMBDA d2 :
    With(QuotStep(r, y, d2, 2 ^ 5), LAMBDA d1 :
         QuotStep(r, y, d1, 1)))

\* one step of long division: the limb x_i is brought down to the remainder r
\* and the next quotient limb is put before q
DivStep(x_i, y, q, r) ==
    With(Trim(<<x_i>> \o r), LAMBDA cur :
    With(IF BigCmp(cur, y) < 0 THEN 0 ELSE QuotLimb(cur, y), LAMBDA d :
        [q |-> <<d>> \o q, r |-> BigSub(cur, BigMulSmall(y, d))]))

RECURSIVE DivFrom(_, _, _, _, _)
\* long division of x by y from limb i down, with q the quotient limbs and
\* r < y the remainder of the limbs above i
DivFrom(x, y, i, q, r) ==
    IF i = 0 THEN [q |-> Trim(q), r |-> r]
    ELSE With(DivStep(x[i], y, q, r), LAMBDA s : DivFrom(x, y, i - 1, s.q, s.r))

\* quotient and remainder of x by y, for y > 0: the top Len(y) - 1 limbs of x
\* are below y and start as the remainder
BigDivMod(x0, y0) ==
    With2(x0, y0, LAMBDA x, y :
        LET n == Len(x) - Len(y) + 1
        IN  IF n <= 0 THEN [q |-> <<>>, r |-> x]
            ELSE With(Trim(SubSeq(x, n + 1, Len(x))),
                      LAMBDA r : DivFrom(x, y, n, <<>>, r)))

\* r with limb i raised by d, for a root r whose limbs up to i are zero
RaiseLimb(r, i, d) == IF d = 0 THEN r ELSE BigAdd(r, ShiftLimbs(<<d>>, i - 1))

\* d0 + t * step for the largest t < 32 for which r with limb i raised by
\* d0 + t * step has a square <= n, given that it has for d0
RootStep(n, r, i, d0, step) ==
    d0 + step * (Cardinality({t \in 0..31 :
                     With(RaiseLimb(r, i, d0 + t * step),
                          LAMBDA c : BigCmp(BigMul(c, c), n) <= 0)}) - 1)

\* the root r with limb i set to the largest digit that keeps its square <= n
RootLimb(n, r, i) ==
    With(RootStep(n, r, i, 0, 2 ^ 10), LAMBDA d2 :
    With(RootStep(n, r, i, d2, 2 ^ 5), LAMBDA d1 :
         RaiseLimb(r, i, RootStep(n, r, i, d1, 1))))

RECURSIVE RootFrom(_, _, _)
\* the largest root with square <= n that has the limbs of r above limb i
RootFrom(n, r, i) ==
    IF i = 0 THEN r
    ELSE With(RootLimb(n, r, i), LAMBDA r1 : RootFrom(n, r1, i - 1))

\* floor(sqrt(x)), limb by limb from the highest
BigSqrt(x0) ==
    With(x0, LAMBDA x : RootFrom(x, <<>>, (Len(x) + 1) \div 2))

RECURSIVE BigPow10(_)
BigPow10(n) ==
    IF n <= 4 THEN <<10 ^ n>>
    ELSE BigMul(BigPow10(n \div 2), BigPow10(n - n \div 2))

\* the number written by at most four decimal digits
SmallFromDigits(ds) ==
    LET n == Len(ds)
        D(i) == IF i <= n THEN ds[i] * 10 ^ (n - i) ELSE 0
    IN  D(1) + D(2) + D(3) + D(4)

RECURSIVE BigFromDigits(_)
\* the number written by the decimal digits ds (most significant first)
BigFromDigits(ds0) ==
    With(ds0, LAMBDA ds :
        LET h == Len(ds) \div 2
        IN  IF Len(ds) <= 4 THEN Trim(<<SmallFromDigits(ds)>>)
            ELSE BigAdd(BigMul(BigFromDigits(SubSeq(ds, 1, h)), BigPow10(Len(ds) - h)),
                        BigFromDigits(SubSeq(ds, h + 1, Len(ds)))))

RECURSIVE DigitsFrom(_, _)
\* the decimal digits of x, four at a time, before the digits ds
DigitsFrom(x, ds) ==
    IF x = <<>> THEN ds
    ELSE With(BigDivSmall(x, 10 ^ 4), LAMBDA d :
              DigitsFrom(d.q, [i \in 1..4 |-> (d.r \div 10 ^ (4 - i)) % 10] \o ds))

\* the decimal digits of x, most significant first (none for zero)
BigToDigits(x) ==
    With(DigitsFrom(x, <<>>), LAMBDA ds :
        LET nz == {i \in 1..Len(ds) : ds[i] # 0}
        IN  IF nz = {} THEN <<>>
            ELSE SubSeq(ds, CHOOSE i \in nz : \A j \in nz : i <= j, Len(ds)))

(***************************************************************************)
(* Python floats: IEEE-754 binary64.  A float is [s, m, e] with value      *)
(* (-1)^s * m * 2^e, where m is zero or has exactly MantBits bits.  Results *)
(* outside the normal range (infinities, subnormals) are not represented:  *)
(* InRange tells them apart and the interpreter steps stop on them.        *)
(***************************************************************************)
MantBits == 53

MinExp == -1074

MaxExp == 971

FZero(s) == [s |-> s, m |-> <<>>, e |-> 0]

InRange(x) == x.m = <<>> \/ (x.e >= MinExp /\ x.e <= MaxExp)

\* (-1)^s * (M + t) * 2^E rounded to MantBits bits, where 0 <= t < 1 and
\* t > 0 iff sticky (then M has more than MantBits bits); dir is "nearest"
\* (ties to even), "down" or "up" (in magnitude)
Round(s, M0, E, sticky, dir) ==
    With(M0, LAMBDA M :
    With(BigBitLen(M) - MantBits, LAMBDA sh :
        IF M = <<>> THEN FZero(s)
        ELSE IF sh <= 0 THEN [s |-> s, m |-> BigShl(M, -sh), e |-> E + sh]
        ELSE With(BigShr(M, sh), LAMBDA q :
             With(BigCmp(BigSub(M, BigShl(q, sh)), BigShl(BigOne, sh - 1)), LAMBDA c :
             With(IF CASE dir = "nearest" -> c > 0 \/ (c = 0 /\ (sticky \/ BigIsOdd(q)))
                       [] dir = "up"      -> sticky \/ BigShl(q, sh) # M
                       [] OTHER           -> FALSE
                  THEN BigAdd(q, BigOne) ELSE q, LAMBDA q1 :
                  IF BigBitLen(q1) > MantBits
                  THEN [s |-> s, m |-> BigShr(q1, 1), e |-> E + sh + 1]
                  ELSE [s |-> s, m |-> q1, e |-> E + sh])))))

FNeg(x) == [x EXCEPT !.s = 1 - x.s]

\* -1, 0, 1 as |x| < |y|, |x| = |y|, |x| > |y|
MagCmp(x, y) ==
    IF x.m = <<>> \/ y.m = <<>> THEN BigCmp(x.m, y.m)
    ELSE IF BigBitLen(x.m) + x.e < BigBitLen(y.m) + y.e THEN -1
    ELSE IF BigBitLen(x.m) + x.e > BigBitLen(y.m) + y.e THEN 1
    ELSE BigCmp(x.m, y.m)

\* x < y
FLess(x, y) ==
    IF x.m = <<>> /\ y.m = <<>> THEN FALSE
    ELSE IF x.m = <<>> THEN y.s = 0
    ELSE IF y.m = <<>> THEN x.s = 1
    ELSE IF x.s # y.s THEN x.s = 1
    ELSE IF x.s = 0 THEN MagCmp(x, y) < 0 ELSE MagCmp(x, y) > 0

FIsZero(x) == x.m = <<>>

FAdd(x0, y0) ==
    With2(x0, y0, LAMBDA x, y :
        LET e == IF x.e <= y.e THEN x.e ELSE y.e
        IN  IF x.m = <<>> THEN (IF y.m = <<>> /\ x.s # y.s THEN FZero(0) ELSE y)
            ELSE IF y.m = <<>> THEN x
            ELSE With2(BigShl(x.m, x.e - e), BigShl(y.m, y.e - e), LAMBDA X, Y :
                 With(BigCmp(X, Y), LAMBDA c :
                    IF x.s = y.s THEN Round(x.s, BigAdd(X, Y), e, FALSE, "nearest")
                    ELSE IF c = 0 THEN FZero(0)
                    ELSE IF c > 0 THEN Round(x.s, BigSub(X, Y), e, FALSE, "nearest")
                    ELSE Round(y.s, BigSub(Y, X), e, FALSE, "nearest"))))

\* faulty subtractions: x + y, and y - x
FSubAdds(x, y) == FAdd(x, y)

FSubReversed(x, y) == FAdd(y, FNeg(x))

FSub(x, y) == FAdd(x, FNeg(y))

\* a faulty product: always rounded away from zero, as if bits had been lost
FMulRoundsUp(x0, y0) ==
    With2(x0, y0, LAMBDA x, y :
        Round((x.s + y.s) % 2, BigMul(x.m, y.m), x.e + y.e, TRUE, "up"))

FMul(x0, y0) ==
    With2(x0, y0, LAMBDA x, y :
        Round((x.s + y.s) % 2, BigMul(x.m, y.m), x.e + y.e, FALSE, "nearest"))

\* the quotient of the mantissas is taken with DivShift extra bits, so that
\* it has more than MantBits bits and the remainder is only a sticky bit
DivShift == MantBits + 2

\* x / y for y # 0
FDiv(x0, y0) ==
    With2(x0, y0, LAMBDA x, y :
    With(BigDivMod(BigShl(x.m, DivShift), y.m), LAMBDA d :
        Round((x.s + y.s) % 2, d.q, x.e - y.e - DivShift, d.r # <<>>, "nearest")))

\* sqrt(x) for x >= 0, correctly rounded (C sqrt)
FSqrt(x0) ==
    With(x0, LAMBDA x :
    With(IF (x.e - DivShift) % 2 = 0 THEN DivShift ELSE DivShift + 1, LAMBDA k :
    With(BigShl(x.m, k), LAMBDA n :
    With(BigSqrt(n), LAMBDA r :
        Round(0, r, (x.e - k) \div 2, BigMul(r, r) # n, "nearest")))))

\* x ** 2.0 is C pow(x, 2.0): the library rounds the exact square faithfully,
\* to one of the two floats around it (to the square itself when it is a float)
FSquare(x0) ==
    With(x0, LAMBDA x :
    With(BigMul(x.m, x.m), LAMBDA M :
        { Round(0, M, 2 * x.e, FALSE, dir) : dir \in {"down", "up"} }))

\* the float of a Python int n with |n| < Base
IntToFloat(n) ==
    IF n >= 0 THEN Round(0, Trim(<<n>>), 0, FALSE, "nearest")
    ELSE Round(1, <<-n>>, 0, FALSE, "nearest")

\* a float literal with integer digits ip and fraction digits fp, read to the
\* nearest float
ParseFloat(lit) ==
    With2(BigFromDigits(lit.ip \o lit.fp), BigPow10(Len(lit.fp)), LAMBDA N, D :
    With(Max(0, DivShift + 1 + BigBitLen(D) - BigBitLen(N)), LAMBDA sh :
    With(BigDivMod(BigShl(N, sh), D), LAMBDA d :
        Round(0, d.q, -sh, d.r # <<>>, "nearest"))))

(***************************************************************************)
(* Strings are sequences of one-character strings.                         *)
(***************************************************************************)
DigitChar(d) == <<"0", "1", "2", "3", "4", "5", "6", "7", "8", "9">>[d + 1]

IsDigit(c) == \E d \in 0..9 : DigitChar(d) = c

CharDigit(c) == CHOOSE d \in 0..9 : DigitChar(d) = c

Chars(ds0) == With(ds0, LAMBDA ds : SubSeq([i \in 1..Len(ds) |-> DigitChar(ds[i])], 1, Len(ds)))

Zeros(n) == [i \in 1..n |-> 0]

\* a format spec [0][width][.precision]type, as format() reads it
SpecDot(spec) == CHOOSE i \in 1..Len(spec) : spec[i] = "."

SpecType(spec) == spec[Len(spec)]

SpecZeroPad(spec) == spec[1] = "0"

SpecWidth(spec) ==
    LET from == IF SpecZeroPad(spec) THEN 2 ELSE 1
        ds   == SubSeq(spec, from, SpecDot(spec) - 1)
    IN  SmallFromDigits([i \in 1..Len(ds) |-> CharDigit(ds[i])])

SpecPrecision(spec) ==
    LET ds == SubSeq(spec, SpecDot(spec) + 1, Len(spec) - 1)
    IN  SmallFromDigits([i \in 1..Len(ds) |-> CharDigit(ds[i])])

\* a faulty scaling: |x| * 10^p with the fraction cut off
ScaledTruncates(x, p) ==
    With(BigMul(x.m, BigPow10(p)), LAMBDA P :
        IF x.e >= 0 THEN BigShl(P, x.e) ELSE BigShr(P, -x.e))

\* |x| * 10^p rounded to the nearest integer, ties to even
Scaled(x, p) ==
    With(BigMul(x.m, BigPow10(p)), LAMBDA P :
        IF x.e >= 0 THEN BigShl(P, x.e)
        ELSE With(BigShr(P, -x.e), LAMBDA q :
             With(BigCmp(BigSub(P, BigShl(q, -x.e)), BigShl(BigOne, -x.e - 1)), LAMBDA c :
                  IF c > 0 \/ (c = 0 /\ BigIsOdd(q)) THEN BigAdd(q, BigOne) ELSE q)))

\* format(x, spec) for a float x and a spec of type 'f': sign, integer
\* digits, '.', exactly p fraction digits; zero-padded to the width if any
FormatFloat(x0, spec0) ==
    With2(x0, spec0, LAMBDA x, spec :
    With(SpecPrecision(spec), LAMBDA p :
    With(BigToDigits(Scaled(x, p)), LAMBDA ds :
    With(IF Len(ds) > p THEN ds ELSE Zeros(p + 1 - Len(ds)) \o ds, LAMBDA all :
    With(Chars(SubSeq(all, 1, Len(all) - p))
         \o (IF p = 0 THEN <<>>
             ELSE <<".">> \o Chars(SubSeq(all, Len(all) - p + 1, Len(all)))), LAMBDA body :
        LET sign == IF x.s = 1 THEN <<"-">> ELSE <<>>
            pad  == IF SpecZeroPad(spec)
                    THEN Max(0, SpecWidth(spec) - Len(sign) - Len(body)) ELSE 0
        IN  sign \o Chars(Zeros(pad)) \o body)))))

(***************************************************************************)
(* Values of the interpreter, and the script as the sequence of evaluation *)
(* steps of its statements, in the order Python evaluates them (operands   *)
(* left to right, then the operation; the right-hand side, then the        *)
(* assignment).                                                            *)
(***************************************************************************)
FloatV(x) == [k |-> "float", v |-> x]

IntV(n) == [k |-> "int", v |-> n]

StrV(cs) == [k |-> "str", v |-> cs]

ModuleV(n) == [k |-> "module", v |-> n]

BuiltinV(n) == [k |-> "builtin", v |-> n]

NoneV == [k |-> "None", v |-> 0]

Unbound == [k |-> "unbound", v |-> 0]

\* a float literal of the source text, converted when it is loaded
FloatLit(lit) == [k |-> "floatlit", v |-> lit]

Ins(op, arg, line) == [op |-> op, arg |-> arg, line |-> line]

\* the literal 3.141592653589793238462643383279502884197
PiLiteral ==
    [ip |-> <<3>>,
     fp |-> <<1, 4, 1, 5, 9, 2, 6, 5, 3, 5, 8, 9, 7, 9, 3, 2, 3, 8, 4, 6,
              2, 6, 4, 3, 3, 8, 3, 2, 7, 9, 5, 0, 2, 8, 8, 4, 1, 9, 7>>]

\* the format spec of every replacement field: '0.16f'
\* a faulty format spec: ten fraction digits
FormatSpecTen == <<"0", ".", "1", "0", "f">>

FormatSpec == <<"0", ".", "1", "6", "f">>

\* import math as m
Line10 ==
    << Ins("IMPORT_NAME", "math", 10),
       Ins("STORE_NAME", "m", 10) >>

\* pi = 3.141592653589793238462643383279502884197
Line13 ==
    << Ins("LOAD_CONST", FloatLit(PiLiteral), 13),
       Ins("STORE_NAME", "pi", 13) >>

\* print(f"pi = {pi:0.16f}")
Line15 ==
    << Ins("LOAD_NAME", "print", 15),
       Ins("LOAD_CONST", StrV(<<"p", "i", " ", "=", " ">>), 15),
       Ins("LOAD_NAME", "pi", 15),
       Ins("LOAD_CONST", StrV(FormatSpec), 15),
       Ins("FORMAT_VALUE", 0, 15),
       Ins("BUILD_STRING", 2, 15),
       Ins("CALL", 1, 15),
       Ins("POP_TOP", 0, 15) >>

\* print(f"2pi = {2.0*pi:0.16f}")
Line16 ==
    << Ins("LOAD_NAME", "print", 16),
       Ins("LOAD_CONST", StrV(<<"2", "p", "i", " ", "=", " ">>), 16),
       Ins("LOAD_CONST", FloatLit([ip |-> <<2>>, fp |-> <<0>>]), 16),
       Ins("LOAD_NAME", "pi", 16),
       Ins("BINARY_OP", "*", 16),
       Ins("LOAD_CONST", StrV(FormatSpec), 16),
       Ins("FORMAT_VALUE", 0, 16),
       Ins("BUILD_STRING", 2, 16),
       Ins("CALL", 1, 16),
       Ins("POP_TOP", 0, 16) >>

\* print(f"pi/2 = {0.5*pi:0.16f}")
Line17 ==
    << Ins("LOAD_NAME", "print", 17),
       Ins("LOAD_CONST", StrV(<<"p", "i", "/", "2", " ", "=", " ">>), 17),
       Ins("LOAD_CONST", FloatLit([ip |-> <<0>>, fp |-> <<5>>]), 17),
       Ins("LOAD_NAME", "pi", 17),
       Ins("BINARY_OP", "*", 17),
       Ins("LOAD_CONST", StrV(FormatSpec), 17),
       Ins("FORMAT_VALUE", 0, 17),
       Ins("BUILD_STRING", 2, 17),
       Ins("CALL", 1, 17),
       Ins("POP_TOP", 0, 17) >>

\* print(f"pi/4 = {0.25*pi:0.16f}")
Line18 ==
    << Ins("LOAD_NAME", "print", 18),
       Ins("LOAD_CONST", StrV(<<"p", "i", "/", "4", " ", "=", " ">>), 18),
       Ins("LOAD_CONST", FloatLit([ip |-> <<0>>, fp |-> <<2, 5>>]), 18),
       Ins("LOAD_NAME", "pi", 18),
       Ins("BINARY_OP", "*", 18),
       Ins("LOAD_CONST", StrV(FormatSpec), 18),
       Ins("FORMAT_VALUE", 0, 18),
       Ins("BUILD_STRING", 2, 18),
       Ins("CALL", 1, 18),
       Ins("POP_TOP", 0, 18) >>

\* a = 6378137.0
Line21 ==
    << Ins("LOAD_CONST", FloatLit([ip |-> <<6, 3, 7, 8, 1, 3, 7>>, fp |-> <<0>>]), 21),
       Ins("STORE_NAME", "a", 21) >>

\* a faulty line 22: inv_f = 0.0
Line22Zero ==
    << Ins("LOAD_CONST", FloatLit([ip |-> <<0>>, fp |-> <<0>>]), 22),
       Ins("STORE_NAME", "inv_f", 22) >>

\* inv_f = 298.257223563
Line22 ==
    << Ins("LOAD_CONST", FloatLit([ip |-> <<2, 9, 8>>, fp |-> <<2, 5, 7, 2, 2, 3, 5, 6, 3>>]), 22),
       Ins("STORE_NAME", "inv_f", 22) >>

\* f = 1.0 / inv_f
Line24 ==
    << Ins("LOAD_CONST", FloatLit([ip |-> <<1>>, fp |-> <<0>>]), 24),
       Ins("LOAD_NAME", "inv_f", 24),
       Ins("BINARY_OP", "/", 24),
       Ins("STORE_NAME", "f", 24) >>

\* print(f"f = {f:0.16f}")
Line25 ==
    << Ins("LOAD_NAME", "print", 25),
       Ins("LOAD_CONST", StrV(<<"f", " ", "=", " ">>), 25),
       Ins("LOAD_NAME", "f", 25),
       Ins("LOAD_CONST", StrV(FormatSpec), 25),
       Ins("FORMAT_VALUE", 0, 25),
       Ins("BUILD_STRING", 2, 25),
       Ins("CALL", 1, 25),
       Ins("POP_TOP", 0, 25) >>

\* ecc2 = 2 * f - f**2
Line27 ==
    << Ins("LOAD_CONST", IntV(2), 27),
       Ins("LOAD_NAME", "f", 27),
       Ins("BINARY_OP", "*", 27),
       Ins("LOAD_NAME", "f", 27),
       Ins("LOAD_CONST", IntV(2), 27),
       Ins("BINARY_OP", "**", 27),
       Ins("BINARY_OP", "-", 27),
       Ins("STORE_NAME", "ecc2", 27) >>

\* print(f"ecc2 = {ecc2:0.16f}")
Line28 ==
    << Ins("LOAD_NAME", "print", 28),
       Ins("LOAD_CONST", StrV(<<"e", "c", "c", "2", " ", "=", " ">>), 28),
       Ins("LOAD_NAME", "ecc2", 28),
       Ins("LOAD_CONST", StrV(FormatSpec), 28),
       Ins("FORMAT_VALUE", 0, 28),
       Ins("BUILD_STRING", 2, 28),
       Ins("CALL", 1, 28),
       Ins("POP_TOP", 0, 28) >>

\* ecc = m.sqrt(ecc2)
Line30 ==
    << Ins("LOAD_NAME", "m", 30),
       Ins("LOAD_ATTR", "sqrt", 30),
       Ins("LOAD_NAME", "ecc2", 30),
       Ins("CALL", 1, 30),
       Ins("STORE_NAME", "ecc", 30) >>

\* print(f"ecc = {ecc:0.16f}")
Line31 ==
    << Ins("LOAD_NAME", "print", 31),
       Ins("LOAD_CONST", StrV(<<"e", "c", "c", " ", "=", " ">>), 31),
       Ins("LOAD_NAME", "ecc", 31),
       Ins("LOAD_CONST", StrV(FormatSpec), 31),
       Ins("FORMAT_VALUE", 0, 31),
       Ins("BUILD_STRING", 2, 31),
       Ins("CALL", 1, 31),
       Ins("POP_TOP", 0, 31) >>

\* b = a * (1 - f)
Line33 ==
    << Ins("LOAD_NAME", "a", 33),
       Ins("LOAD_CONST", IntV(1), 33),
       Ins("LOAD_NAME", "f", 33),
       Ins("BINARY_OP", "-", 33),
       Ins("BINARY_OP", "*", 33),
       Ins("STORE_NAME", "b", 33) >>

\* print(f"b = {b:0.16f}")
Line34 ==
    << Ins("LOAD_NAME", "print", 34),
       Ins("LOAD_CONST", StrV(<<"b", " ", "=", " ">>), 34),
       Ins("LOAD_NAME", "b", 34),
       Ins("LOAD_CONST", StrV(FormatSpec), 34),
       Ins("FORMAT_VALUE", 0, 34),
       Ins("BUILD_STRING", 2, 34),
       Ins("CALL", 1, 34),
       Ins("POP_TOP", 0, 34) >>

\* radius = (2 * a + b) / 3
Line36 ==
    << Ins("LOAD_CONST", IntV(2), 36),
       Ins("LOAD_NAME", "a", 36),
       Ins("BINARY_OP", "*", 36),
       Ins("LOAD_NAME", "b", 36),
       Ins("BINARY_OP", "+", 36),
       Ins("LOAD_CONST", IntV(3), 36),
       Ins("BINARY_OP", "/", 36),
       Ins("STORE_NAME", "radius", 36) >>

\* print(f"radius = {radius:0.16f}")
Line37 ==
    << Ins("LOAD_NAME", "print", 37),
       Ins("LOAD_CONST", StrV(<<"r", "a", "d", "i", "u", "s", " ", "=", " ">>), 37),
       Ins("LOAD_NAME", "radius", 37),
       Ins("LOAD_CONST", StrV(FormatSpec), 37),
       Ins("FORMAT_VALUE", 0, 37),
       Ins("BUILD_STRING", 2, 37),
       Ins("CALL", 1, 37),
       Ins("POP_TOP", 0, 37) >>

(***************************************************************************)
(* Faulty orders of the statements, against which the properties of the    *)
(* script are tested.                                                      *)
(***************************************************************************)
\* 2pi is printed before pi
ProgramTwoPiFirst ==
    Line10 \o Line13 \o Line16 \o Line15 \o Line17 \o Line18
    \o Line21 \o Line22 \o Line24 \o Line25 \o Line27 \o Line28
    \o Line30 \o Line31 \o Line33 \o Line34 \o Line36 \o Line37

\* pi is printed twice
ProgramPiTwice ==
    Line10 \o Line13 \o Line15 \o Line15 \o Line16 \o Line17 \o Line18
    \o Line21 \o Line22 \o Line24 \o Line25 \o Line27 \o Line28
    \o Line30 \o Line31 \o Line33 \o Line34 \o Line36 \o Line37

\* ecc2 is computed before f
ProgramEcc2BeforeF ==
    Line10 \o Line13 \o Line15 \o Line16 \o Line17 \o Line18
    \o Line21 \o Line22 \o Line27 \o Line24 \o Line25 \o Line28
    \o Line30 \o Line31 \o Line33 \o Line34 \o Line36 \o Line37

\* b is computed before ecc is printed
ProgramBBeforeEccPrint ==
    Line10 \o Line13 \o Line15 \o Line16 \o Line17 \o Line18
    \o Line21 \o Line22 \o Line24 \o Line25 \o Line27 \o Line28
    \o Line30 \o Line33 \o Line31 \o Line34 \o Line36 \o Line37

\* the script as written
Program ==
    Line10 \o Line13 \o Line15 \o Line16 \o Line17 \o Line18
    \o Line21 \o Line22 \o Line24 \o Line25 \o Line27 \o Line28
    \o Line30 \o Line31 \o Line33 \o Line34 \o Line36 \o Line37

Names == {"m", "pi", "a", "inv_f", "f", "ecc2", "ecc", "b", "radius"}

Builtins == {"print"}

VARIABLES
    pc,       \* index in Program of the next step
    stack,    \* operand stack of the module's frame
    globals,  \* the module namespace: the value bound to each name
    stdout,   \* the lines written so far
    status    \* "running", "done" (exit code 0) or the exception raised

vars == <<pc, stack, globals, stdout, status>>

Init ==
    /\ pc = 1
    /\ stack = <<>>
    /\ globals = [n \in Names |-> Unbound]
    /\ stdout = <<>>
    /\ status = "running"

At(op) == status = "running" /\ pc <= Len(Program) /\ Program[pc].op = op

Top(n) == stack[Len(stack) - n]

Pop(n) == SubSeq(stack, 1, Len(stack) - n)

Raise(exc) == status' = exc /\ UNCHANGED <<pc, stack, globals, stdout>>

Step(newstack) ==
    /\ stack' = newstack
    /\ pc' = pc + 1
    /\ UNCHANGED <<globals, stdout, status>>

ImportName ==
    /\ At("IMPORT_NAME")
    /\ Step(Append(stack, ModuleV(Program[pc].arg)))

LoadConst ==
    /\ At("LOAD_CONST")
    /\ LET c == Program[pc].arg
       IN  Step(Append(stack, IF c.k = "floatlit" THEN FloatV(ParseFloat(c.v)) ELSE c))

LoadName ==
    /\ At("LOAD_NAME")
    /\ LET n == Program[pc].arg
       IN  IF n \in Names /\ globals[n].k # "unbound" THEN Step(Append(stack, globals[n]))
           ELSE IF n \in Builtins THEN Step(Append(stack, BuiltinV(n)))
           ELSE Raise("NameError")

LoadAttr ==
    /\ At("LOAD_ATTR")
    /\ IF Top(0).k = "module" /\ Top(0).v = "math" /\ Program[pc].arg = "sqrt"
       THEN Step(Append(Pop(1), BuiltinV("math.sqrt")))
       ELSE Raise("AttributeError")

StoreName ==
    /\ At("STORE_NAME")
    /\ globals' = [globals EXCEPT ![Program[pc].arg] = Top(0)]
    /\ stack' = Pop(1)
    /\ pc' = pc + 1
    /\ UNCHANGED <<stdout, status>>

IsNumber(v) == v.k = "int" \/ v.k = "float"

ToFloat(v) == IF v.k = "int" THEN IntToFloat(v.v) ELSE v.v

Ok(v) == [ok |-> TRUE, val |-> v]

Exc(e) == [ok |-> FALSE, exc |-> e]

FloatResult(x) == IF InRange(x) THEN Ok(FloatV(x)) ELSE Exc("FloatRange")

\* the outcomes of l op r
BinaryResults(op, l, r) ==
    IF ~(IsNumber(l) /\ IsNumber(r)) THEN {Exc("TypeError")}
    ELSE IF l.k = "int" /\ r.k = "int" /\ op \in {"+", "-", "*"}
    THEN {Ok(IntV(CASE op = "+" -> l.v + r.v [] op = "-" -> l.v - r.v [] OTHER -> l.v * r.v))}
    ELSE LET x == ToFloat(l)
             y == ToFloat(r)
         IN  CASE op = "*" -> {FloatResult(FMul(x, y))}
               [] op = "+" -> {FloatResult(FAdd(x, y))}
               [] op = "-" -> {FloatResult(FSub(x, y))}
               [] op = "/" -> IF FIsZero(y) THEN {Exc("ZeroDivisionError")}
                                            ELSE {FloatResult(FDiv(x, y))}
               [] op = "**" /\ y = IntToFloat(2) -> {FloatResult(z) : z \in FSquare(x)}
               [] OTHER -> {Exc("Unmodelled")}

BinaryOp ==
    /\ At("BINARY_OP")
    /\ \E res \in BinaryResults(Program[pc].arg, Top(1), Top(0)) :
          IF res.ok THEN Step(Append(Pop(2), res.val)) ELSE Raise(res.exc)

FormatValue ==
    /\ At("FORMAT_VALUE")
    /\ IF Top(1).k = "float" /\ SpecType(Top(0).v) = "f"
       THEN Step(Append(Pop(2), StrV(FormatFloat(Top(1).v, Top(0).v))))
       ELSE Raise("Unmodelled")

BuildString ==
    /\ At("BUILD_STRING")
    /\ Step(Append(Pop(2), StrV(Top(1).v \o Top(0).v)))

\* callee(arg): the callee is below its argument on the stack
Call ==
    /\ At("CALL")
    /\ LET callee == Top(1)
           arg    == Top(0)
       IN  IF callee.k # "builtin" THEN Raise("TypeError")
           ELSE IF callee.v = "print"
           THEN IF arg.k # "str" THEN Raise("Unmodelled")
                ELSE /\ stdout' = Append(stdout, arg.v)
                     /\ stack' = Append(Pop(2), NoneV)
                     /\ pc' = pc + 1
                     /\ UNCHANGED <<globals, status>>
           ELSE IF ~IsNumber(arg) THEN Raise("TypeError")
           ELSE IF FLess(ToFloat(arg), FZero(0)) THEN Raise("ValueError")
           ELSE Step(Append(Pop(2), FloatV(FSqrt(ToFloat(arg)))))

PopTop ==
    /\ At("POP_TOP")
    /\ Step(Pop(1))

\* the end of the module body: the interpreter exits with code 0
Exit ==
    /\ status = "running"
    /\ pc = Len(Program) + 1
    /\ status' = "done"
    /\ UNCHANGED <<pc, stack, globals, stdout>>

Next ==
    \/ ImportName
    \/ LoadConst
    \/ LoadName
    \/ LoadAttr
    \/ StoreName
    \/ BinaryOp
    \/ FormatValue
    \/ BuildString
    \/ Call
    \/ PopTop
    \/ Exit

Spec == Init /\ [][Next]_vars

\* the interpreter runs the script without pause until it exits
FairSpec == Spec /\ WF_vars(Next)

ExitCode == IF status = "done" THEN 0 ELSE 1

(***************************************************************************)
(* What a run shows: the names that are bound and the lines on stdout.     *)
(***************************************************************************)
Bound(n) == globals[n].k # "unbound"

Val(n) == globals[n].v

RECURSIVE Join(_)
\* the string made of the characters cs
Join(cs0) ==
    With(cs0, LAMBDA cs :
        IF Len(cs) = 0 THEN ""
        ELSE IF Len(cs) = 1 THEN cs[1]
        ELSE Join(SubSeq(cs, 1, Len(cs) \div 2))
             \o Join(SubSeq(cs, Len(cs) \div 2 + 1, Len(cs))))

\* i is where the first " = " of the line starts, and no space comes before
IsSepAt(line, i) ==
    /\ line[i] = " " /\ line[i + 1] = "=" /\ line[i + 2] = " "
    /\ \A j \in 1..(i - 1) : line[j] # " "

HasSep(line) == \E i \in 1..(Len(line) - 2) : IsSepAt(line, i)

SepAt(line) == CHOOSE i \in 1..(Len(line) - 2) : IsSepAt(line, i)

LabelOf(line) == Join(SubSeq(line, 1, SepAt(line) - 1))

ValueOf(line) == SubSeq(line, SepAt(line) + 3, Len(line))

\* the last instruction executed is op, of the given source line
After(op, line) ==
    /\ status = "running" /\ pc > 1
    /\ Program[pc - 1].op = op /\ Program[pc - 1].line = line

Lit(ip, fp) == ParseFloat([ip |-> ip, fp |-> fp])

OutputOrder == <<"pi", "2pi", "pi/2", "pi/4", "f", "ecc2", "ecc", "b", "radius">>

ConstOrder == <<"pi", "a", "inv_f", "f", "ecc2", "ecc", "b", "radius">>

Derived == <<"f", "ecc2", "ecc", "b", "radius">>

(***************************************************************************)
(* C1: a run writes exactly nine lines, labelled pi, 2pi, pi/2, pi/4, f,   *)
(* ecc2, ecc, b, radius in this order, and no other line before, between   *)
(* or after them.                                                          *)
(***************************************************************************)
LabelsInOrder ==
    /\ Len(stdout) <= Len(OutputOrder)
    /\ \A i \in 1..Len(stdout) : HasSep(stdout[i]) /\ LabelOf(stdout[i]) = OutputOrder[i]

\* C1: at every moment the labels written so far are the first labels of the
\* fixed order, and from some moment on exactly the nine lines are written
C1_NineLinesInOrder == []LabelsInOrder /\ <>[](Len(stdout) = Len(OutputOrder))

\* C1: the run is over with the nine lines written, radius last
C1_AllNineWritten ==
    status = "done" /\ Len(stdout) = 9 /\ LabelOf(stdout[9]) = "radius"

(***************************************************************************)
(* C2: the lines of output and the entities of the data model.             *)
(***************************************************************************)
LinesLabelled(l) == {i \in 1..Len(stdout) : LabelOf(stdout[i]) = l}

\* C2 as stated: eleven lines, one for each of the eleven entities, a and
\* inv_f among them
C2_ElevenLinesOnePerEntity ==
    status = "done" =>
        /\ Len(stdout) = 11
        /\ \A l \in {OutputOrder[i] : i \in 1..9} \cup {"a", "inv_f"} :
               Cardinality(LinesLabelled(l)) = 1

\* C2 amended: nine lines, one for each of pi, 2pi, pi/2, pi/4, f, ecc2, ecc,
\* b, radius and none twice; a and inv_f are assigned but never printed
C2_NineLinesOnePerPrintedConstant ==
    /\ \A i, j \in 1..Len(stdout) :
           LabelOf(stdout[i]) = LabelOf(stdout[j]) => i = j
    /\ \A i \in 1..Len(stdout) : LabelOf(stdout[i]) \notin {"a", "inv_f"}
    /\ status = "done" =>
           /\ Len(stdout) = 9
           /\ \A i \in 1..9 : Cardinality(LinesLabelled(OutputOrder[i])) = 1
           /\ Bound("a") /\ Bound("inv_f")

\* C2: the run is over, a and inv_f hold values and no line shows them
C2_AssignedButNotPrinted ==
    /\ status = "done" /\ Bound("a") /\ Bound("inv_f")
    /\ LinesLabelled("a") = {} /\ LinesLabelled("inv_f") = {}

(***************************************************************************)
(* C3: the printed values.                                                 *)
(***************************************************************************)
Lines == [i \in 1..Len(stdout) |-> Join(stdout[i])]

\* the nine lines as the specification lists them
ListedLines ==
    << "pi = 3.1415926535897931",
       "2pi = 6.2831853071795862",
       "pi/2 = 1.5707963267948966",
       "pi/4 = 0.7853981633974483",
       "f = 0.0033528106647475",
       "ecc2 = 0.0066943799901414",
       "ecc = 0.0818191908426215",
       "b = 6356752.3142451793",
       "radius = 6371008.7714817859" >>

\* the nine lines as the script prints them
PrintedLines ==
    << "pi = 3.1415926535897931",
       "2pi = 6.2831853071795862",
       "pi/2 = 1.5707963267948966",
       "pi/4 = 0.7853981633974483",
       "f = 0.0033528106647475",
       "ecc2 = 0.0066943799901413",
       "ecc = 0.0818191908426215",
       "b = 6356752.3142451792955399",
       "radius = 6371008.7714150594547391" >>

\* the values of the nine defining expressions over the bound names
Defined ==
    << Val("pi"),
       FMul(Lit(<<2>>, <<0>>), Val("pi")),
       FMul(Lit(<<0>>, <<5>>), Val("pi")),
       FMul(Lit(<<0>>, <<2, 5>>), Val("pi")),
       Val("f"), Val("ecc2"), Val("ecc"), Val("b"), Val("radius") >>

\* the stored names hold the values of their defining expressions
DefinedAsWritten ==
    /\ Val("pi") = ParseFloat(PiLiteral)
    /\ Val("a") = Lit(<<6, 3, 7, 8, 1, 3, 7>>, <<0>>)
    /\ Val("inv_f") = Lit(<<2, 9, 8>>, <<2, 5, 7, 2, 2, 3, 5, 6, 3>>)
    /\ Val("f") = FDiv(Lit(<<1>>, <<0>>), Val("inv_f"))
    /\ Val("ecc2") \in {FSub(FMul(IntToFloat(2), Val("f")), z) : z \in FSquare(Val("f"))}
    /\ Val("ecc") = FSqrt(Val("ecc2"))
    /\ Val("b") = FMul(Val("a"), FSub(IntToFloat(1), Val("f")))
    /\ Val("radius") = FDiv(FAdd(FMul(IntToFloat(2), Val("a")), Val("b")), IntToFloat(3))

\* C3 as stated: the output is the nine lines listed in the specification
C3_ListedLines == status = "done" => Lines = ListedLines

\* C3 amended: each printed value is the value of its label's defining
\* expression with 16 fraction digits, and the output is the nine lines
\* PrintedLines (ecc2 ends in 1413, b and radius have 16 fraction digits)
C3_PrintedValues ==
    status = "done" =>
        /\ Len(stdout) = 9
        /\ Lines = PrintedLines
        /\ DefinedAsWritten
        /\ \A i \in 1..9 :
               Lines[i] = OutputOrder[i] \o " = " \o Join(FormatFloat(Defined[i], FormatSpec))

\* C3: the run is over and the ecc2 line ends in 1413
C3_Ecc2LinePrinted ==
    status = "done" /\ Len(stdout) = 9 /\ Lines[6] = "ecc2 = 0.0066943799901413"

(***************************************************************************)
(* C4: the form of the lines.                                              *)
(***************************************************************************)
\* digits, a point, and exactly 16 digits
IsFixed16(v) ==
    /\ Len(v) >= 18
    /\ v[Len(v) - 16] = "."
    /\ \A i \in 1..Len(v) : i # Len(v) - 16 => IsDigit(v[i])

\* C4: every line is a name, " = ", and a value in fixed-point notation with
\* exactly 16 digits after the point
C4_FixedPoint16 ==
    \A i \in 1..Len(stdout) :
        /\ HasSep(stdout[i])
        /\ SepAt(stdout[i]) > 1
        /\ IsFixed16(ValueOf(stdout[i]))

\* C4: all nine lines are written, the large values with seven digits before
\* the point and the small ones with a zero
C4_LargeAndSmallPrinted ==
    /\ Len(stdout) = 9
    /\ Len(ValueOf(stdout[8])) = 24 /\ Len(ValueOf(stdout[9])) = 24
    /\ \A i \in 5..7 : Len(ValueOf(stdout[i])) = 18 /\ ValueOf(stdout[i])[1] = "0"

(***************************************************************************)
(* C5: the order of the axes.                                              *)
(***************************************************************************)
\* C5: 0 < f < 1, and once computed, b < a and b < radius < a
C5_AxesOrdered ==
    /\ Bound("f") => FLess(FZero(0), Val("f")) /\ FLess(Val("f"), IntToFloat(1))
    /\ Bound("b") => FLess(Val("b"), Val("a"))
    /\ Bound("radius") => FLess(Val("b"), Val("radius")) /\ FLess(Val("radius"), Val("a"))

\* C5: b and radius are computed
C5_RadiusComputed == Bound("f") /\ Bound("b") /\ Bound("radius")

(***************************************************************************)
(* C6: no operation fails.                                                 *)
(***************************************************************************)
\* C6: no exception is raised; every divisor is non-zero when the division
\* is evaluated, the argument of sqrt is not negative when it is called, and
\* inv_f # 0, f # 1, ecc2 >= 0
C6_NoOperationFails ==
    /\ status \in {"running", "done"}
    /\ (At("BINARY_OP") /\ Program[pc].arg = "/") => ~FIsZero(ToFloat(Top(0)))
    /\ (At("CALL") /\ Top(1).k = "builtin" /\ Top(1).v = "math.sqrt")
           => ~FLess(ToFloat(Top(0)), FZero(0))
    /\ Bound("inv_f") => ~FIsZero(Val("inv_f"))
    /\ Bound("f") => Val("f") # IntToFloat(1)
    /\ Bound("ecc2") => ~FLess(Val("ecc2"), FZero(0))

\* C6: both divisions and the square root are done
C6_AllOperationsDone ==
    status = "running" /\ Bound("f") /\ Bound("ecc") /\ Bound("radius")

(***************************************************************************)
(* C7: the multiples of pi are exact.                                      *)
(***************************************************************************)
\* x * 2^k, with no rounding
TimesPow2(x, k) == [x EXCEPT !.e = @ + k]

\* the value of line i of the output is the rendering of x
Shows(i, x) == ValueOf(stdout[i]) = FormatFloat(x, FormatSpec)

\* C7: the products computed on lines 16, 17 and 18 are pi * 2, pi / 2 and
\* pi / 4 without rounding, these are the values printed, and
\* 2pi = 4 * (pi/2) = 8 * (pi/4)
C7_MultiplesExact ==
    /\ After("BINARY_OP", 16) => Top(0).v = TimesPow2(Val("pi"), 1)
    /\ After("BINARY_OP", 17) =>
           /\ Top(0).v = TimesPow2(Val("pi"), -1)
           /\ FMul(IntToFloat(4), Top(0).v) = FMul(Lit(<<2>>, <<0>>), Val("pi"))
    /\ After("BINARY_OP", 18) =>
           /\ Top(0).v = TimesPow2(Val("pi"), -2)
           /\ FMul(IntToFloat(8), Top(0).v) = FMul(Lit(<<2>>, <<0>>), Val("pi"))
    /\ After("CALL", 16) => Shows(2, TimesPow2(Val("pi"), 1))
    /\ After("CALL", 17) => Shows(3, TimesPow2(Val("pi"), -1))
    /\ After("CALL", 18) => Shows(4, TimesPow2(Val("pi"), -2))

\* C7: pi/4 has just been printed, after 2pi and pi/2
C7_QuarterPiPrinted == After("CALL", 18) /\ Len(stdout) = 4

(***************************************************************************)
(* C8: termination.                                                        *)
(***************************************************************************)
\* every step executes the next instruction, or exits after the last one
StraightLine ==
    \/ pc' = pc + 1 /\ status' = "running"
    \/ pc = Len(Program) + 1 /\ pc' = pc /\ status' = "done"

\* C8: the instructions are executed one after the other, each once, and the
\* run reaches completion with exit code 0, after the radius line
C8_TerminatesStraightLine ==
    /\ [][StraightLine]_vars
    /\ [](status = "done" => Len(stdout) = 9 /\ LabelOf(stdout[9]) = "radius")
    /\ <>[](status = "done" /\ ExitCode = 0)

\* C8: the run has completed past the last instruction
C8_Completed == status = "done" /\ pc = Len(Program) + 1 /\ ExitCode = 0

(***************************************************************************)
(* C9: assignments.                                                        *)
(***************************************************************************)
ReadsAssigned ==
    /\ status # "NameError"
    /\ (At("LOAD_NAME") /\ Program[pc].arg \in Names) => Bound(Program[pc].arg)

AssignedInOrder ==
    /\ \A i \in 1..(Len(ConstOrder) - 1) : Bound(ConstOrder[i + 1]) => Bound(ConstOrder[i])
    /\ status = "done" => \A i \in 1..Len(ConstOrder) : Bound(ConstOrder[i])

\* a store binds a name that is unbound, and a bound name keeps its value
AssignsOnce ==
    /\ At("STORE_NAME") => ~Bound(Program[pc].arg)
    /\ \A n \in Names : Bound(n) => globals'[n] = globals[n]

\* C9: a name is read only after it is assigned; each of pi, a, inv_f, f,
\* ecc2, ecc, b, radius is assigned once, never again, and in this order
C9_AssignedOnceInOrder ==
    [](ReadsAssigned /\ AssignedInOrder) /\ [][AssignsOnce]_vars

\* C9: all eight constants are assigned and the run goes on
C9_AllAssigned ==
    status = "running" /\ \A i \in 1..Len(ConstOrder) : Bound(ConstOrder[i])

(***************************************************************************)
(* C10: each derived constant is printed right after it is computed.       *)
(***************************************************************************)
\* C10: when the i-th derived constant is computed the 3 + i lines before
\* its own are written; its line is written before the next derived
\* constant is computed, and it is line 4 + i
C10_PrintedRightAfterComputed ==
    \A i \in 1..Len(Derived) :
        /\ Bound(Derived[i]) => Len(stdout) >= 3 + i
        /\ Len(stdout) >= 4 + i =>
               Bound(Derived[i]) /\ LabelOf(stdout[4 + i]) = Derived[i]
        /\ (i < Len(Derived) /\ Bound(Derived[i + 1])) => Len(stdout) >= 4 + i

\* C10: radius is computed and not yet printed, the eight lines before it are
C10_RadiusComputedNotPrinted == Bound("radius") /\ Len(stdout) = 8
====
